---- MODULE Spec2Model ----
(***************************************************************************)
(* node-bangumi: the GET/POST request executor (_get, _post), its          *)
(* callback/promise wrappers (get, post) and the promise-provider store.   *)
(*                                                                         *)
(* JavaScript objects are ordered maps: sequences of <<key, value>> pairs  *)
(* in insertion order.  Text that is encoded or sent on the wire is a      *)
(* sequence of pieces (strings); a character that an encoder rewrites is   *)
(* a piece of its own.                                                     *)
(***************************************************************************)
EXTENDS Integers, Sequences, FiniteSets, TLC

VARIABLES
    options,        \* client -> this.options of that Bangumi instance
    store_promise,  \* store._promise of lib/promise_provider.js (one per process)
    cur             \* the most recent API call: its arguments, what it returned
                    \* or raised, and the closure of its request (the transport
                    \* request, `data`, `callback`) with the deferred it returned

vars == <<options, store_promise, cur>>

(***************************************************************************)
(* Bounds of the model.                                                    *)
(***************************************************************************)
\* the largest number of pieces one 'data' event of the response delivers
MaxChunkLen == 2

(***************************************************************************)
(* Ordered maps (JavaScript objects).                                      *)
(***************************************************************************)
Keys(obj) == { obj[i][1] : i \in 1..Len(obj) }

hasOwnProperty(obj, key) == key \in Keys(obj)

Get(obj, key) == obj[CHOOSE i \in 1..Len(obj) : obj[i][1] = key][2]

\* obj[key] = value
Put(obj, key, value) ==
    IF key \in Keys(obj)
    THEN [i \in 1..Len(obj) |-> IF obj[i][1] = key THEN <<key, value>> ELSE obj[i]]
    ELSE Append(obj, <<key, value>>)

RECURSIVE merge(_, _)
\* utils.merge(defaults, options): every own key of options is written into
\* defaults, which is returned; an options that is no object adds nothing.
merge(defaults, opts) ==
    IF opts = <<>> THEN defaults
    ELSE merge(Put(defaults, Head(opts)[1], Head(opts)[2]), Tail(opts))

(***************************************************************************)
(* Text and its encoders.                                                  *)
(***************************************************************************)
RECURSIVE TextLength(_)
\* String.prototype.length of a text
TextLength(text) ==
    IF text = <<>> THEN 0 ELSE Len(Head(text)) + TextLength(Tail(text))

\* querystring.escape, piece by piece
qsEscape(text) == [i \in 1..Len(text) |-> IF text[i] = " " THEN "%20" ELSE text[i]]

RECURSIVE stringify(_)
\* querystring.stringify(obj): key=value pairs joined by '&', '' for no keys
stringify(obj) ==
    IF obj = <<>> THEN <<>>
    ELSE qsEscape(<<Head(obj)[1]>>) \o <<"=">> \o qsEscape(Head(obj)[2])
         \o (IF Tail(obj) = <<>> THEN <<>> ELSE <<"&">> \o stringify(Tail(obj)))

\* encodeURI, piece by piece: a space and a percent sign are escaped
encodeURI(text) ==
    [i \in 1..Len(text) |->
        CASE text[i] = " "   -> "%20"
          [] text[i] = "%20" -> "%2520"
          [] OTHER           -> text[i]]

(***************************************************************************)
(* JavaScript values that reach the completion function.  A value is a     *)
(* record [type, lit, items]: lit is the text of a primitive, items the    *)
(* own properties of an object or array as an ordered map from the key to  *)
(* the <<type, lit>> of a primitive member.                                *)
(***************************************************************************)
JsValue(type, lit, items) == [type |-> type, lit |-> lit, items |-> items]

null == JsValue("null", "null", <<>>)

undefined == JsValue("undefined", "undefined", <<>>)

\* the object literal {}
EmptyObject == JsValue("object", "", <<>>)

JsString(s) == JsValue("string", s, <<>>)

JsError(name, message) == JsValue(name, message, <<>>)

\* the JSON texts of the primitives: <<token, type, lit>>
ScalarTokens ==
    << <<"null", "null", "null">>,
       <<"true", "boolean", "true">>,
       <<"7", "number", "7">>,
       <<"\"s\"", "string", "s">>,
       <<"\"shows\"", "string", "shows">>,
       <<"\"error\"", "string", "error">>,
       <<"\"need login\"", "string", "need login">>,
       <<"\"hasOwnProperty\"", "string", "hasOwnProperty">> >>

IsScalarToken(tok) == \E i \in 1..Len(ScalarTokens) : ScalarTokens[i][1] = tok

IsStringToken(tok) ==
    \E i \in 1..Len(ScalarTokens) : ScalarTokens[i][1] = tok /\ ScalarTokens[i][2] = "string"

\* the <<type, lit>> a primitive's token denotes
ScalarOf(tok) ==
    LET e == ScalarTokens[CHOOSE i \in 1..Len(ScalarTokens) : ScalarTokens[i][1] = tok]
    IN  <<e[2], e[3]>>

RECURSIVE ParseMembers(_, _)
\* the members  key : value , key : value ...  of an object, a later
\* duplicate key overwriting the earlier value
ParseMembers(inner, acc) ==
    IF inner = <<>> THEN acc
    ELSE ParseMembers(IF Len(inner) > 4 THEN SubSeq(inner, 5, Len(inner)) ELSE <<>>,
                      Put(acc, ScalarOf(inner[1])[2], ScalarOf(inner[3])))

\* JSON.parse(data) for primitives and for arrays and objects of primitives:
\* [ok |-> TRUE, value |-> the value] or [ok |-> FALSE, value |-> the SyntaxError]
JSON_parse(data) ==
    LET n == Len(data)
        inner == SubSeq(data, 2, n - 1)
        m == Len(inner)
        bad == [ok |-> FALSE, value |-> JsError("SyntaxError", "Unexpected token")]
    IN  IF n = 1 /\ IsScalarToken(data[1])
        THEN [ok |-> TRUE,
              value |-> JsValue(ScalarOf(data[1])[1], ScalarOf(data[1])[2], <<>>)]
        ELSE IF n >= 2 /\ data[1] = "[" /\ data[n] = "]"
        THEN IF m = 0 \/ (m % 2 = 1
                          /\ \A i \in 1..m : IF i % 2 = 1 THEN IsScalarToken(inner[i])
                                                          ELSE inner[i] = ",")
             THEN [ok |-> TRUE,
                   value |-> JsValue("array", "",
                       [i \in 1..((m + 1) \div 2) |->
                           <<ToString(i - 1), ScalarOf(inner[2 * i - 1])>>])]
             ELSE bad
        ELSE IF n >= 2 /\ data[1] = "{" /\ data[n] = "}"
        THEN IF m = 0 \/ (m % 4 = 3
                          /\ \A i \in 1..m :
                                CASE i % 4 = 1 -> IsStringToken(inner[i])
                                  [] i % 4 = 2 -> inner[i] = ":"
                                  [] i % 4 = 3 -> IsScalarToken(inner[i])
                                  [] OTHER     -> inner[i] = ",")
             THEN [ok |-> TRUE, value |-> JsValue("object", "", ParseMembers(inner, <<>>))]
             ELSE bad
        ELSE bad

\* json.hasOwnProperty(key) as line 102 evaluates it: "throw" when json is
\* null (no property can be read) or when json has an own member named
\* hasOwnProperty (a JSON member is never a function), else TRUE or FALSE.
\* An array or a boxed string owns only its indices and length.
CallHasOwnProperty(json, key) ==
    CASE json.type = "null" -> "throw"
      [] json.type = "object" /\ hasOwnProperty(json.items, "hasOwnProperty") -> "throw"
      [] json.type = "object" -> IF hasOwnProperty(json.items, key) THEN "true" ELSE "false"
      [] json.type \in {"array", "string"} ->
            IF key = "length" \/ key \in Keys(json.items) THEN "true" ELSE "false"
      [] OTHER -> "false"

(***************************************************************************)
(* The client: construction and the request executor.                      *)
(***************************************************************************)
\* the instances of Bangumi, named after the credentials they are given
Clients == {"anon", "both"}

\* the options each instance is constructed with
UserOptions(c) ==
    CASE c = "anon" -> <<>>
      [] c = "both" -> << <<"app_id", <<"app1">>>>, <<"access_token", <<"tok1">>>>,
                          <<"protocol", "http">> >>

VERSION == "1.0.0"

\* new Bangumi(options): this.options
Bangumi(opts) ==
    LET defaults ==
            << <<"headers",
                 << <<"Accept", <<"*/*">>>>,
                    <<"Content-Type", <<"application/x-www-form-urlencoded">>>>,
                    <<"Connection", <<"close">>>>,
                    <<"User-Agent", <<"node-bangumi/", VERSION>>>> >> >>,
               <<"callback_url", "null">>,
               <<"rest_base", <<"api.bgm.tv">>>>,
               <<"cookie_options", <<>>>>,
               <<"cookie_secret", "null">> >>
    IN  merge(defaults, opts)

\* the arguments a caller passes
Fn(name) == JsValue("function", name, <<>>)

Obj(items) == JsValue("object", "", items)

\* the own keys a parameters argument contributes (none unless it is an object)
Items(params) == IF params.type = "object" THEN params.items ELSE <<>>

\* what protocols[protocolName].request(options, ...) is given, and what is
\* written to it
NoRequest ==
    [protocol |-> "", host |-> <<>>, path |-> <<>>, method |-> "",
     headers |-> <<>>, body |-> <<>>, ended |-> FALSE]

\* a call of a completion function: its two arguments and where it was
\* made, "call" (in the frame of the API call) or the response event
Completion(error, value, on) == [error |-> error, value |-> value, on |-> on]

\* what one call of the executor did: raised a value or returned this,
\* this.options afterwards, the request it sent, the function its response
\* handlers hold as `callback` and the calls of it made before returning
Raise(self, message) ==
    [raised |-> TRUE, value |-> message, options |-> self,
     request |-> NoRequest, callback |-> undefined, calls |-> <<>>]

protocolName(self) ==
    IF hasOwnProperty(self, "protocol") THEN Get(self, "protocol") ELSE "https"

\* lines 76-89 of _get: the request options, and this.options afterwards
_get_options(self, url, ps) ==
    LET merged == IF hasOwnProperty(self, "app_id")
                  THEN merge(<< <<"source", Get(self, "app_id")>> >>, Items(ps))
                  ELSE Items(ps)
        query == stringify(merged)
        \* options.headers is this.options.headers itself, not a copy
        headers == IF hasOwnProperty(self, "access_token")
                   THEN Put(Get(self, "headers"), "Authorization",
                            <<"Bearer", " ">> \o Get(self, "access_token"))
                   ELSE Get(self, "headers")
    IN  [options |-> Put(self, "headers", headers),
         request |-> [protocol |-> protocolName(self),
                      host |-> Get(self, "rest_base"),
                      path |-> encodeURI(url \o (IF query # <<>> THEN <<"?">> ELSE <<>>)
                                             \o query),
                      method |-> "GET",
                      headers |-> headers,
                      body |-> <<>>,
                      ended |-> TRUE]]

\* _get without the check of the path
_get_noUrlCheck(self, url, params, callback) ==
    LET cb == IF params.type = "function" THEN params ELSE callback
        ps == IF params.type = "function" THEN Obj(<<>>) ELSE params
        sent == _get_options(self, url, ps)
    IN  IF cb.type # "function" THEN Raise(self, "FAIL: INVALID CALLBACK.")
        ELSE [raised |-> FALSE, value |-> "this", options |-> sent.options,
              request |-> sent.request, callback |-> cb, calls |-> <<>>]

\* Bangumi.prototype._get(url, params, callback) up to `return this`
_get(self, url, params, callback) ==
    LET cb == IF params.type = "function" THEN params ELSE callback
        ps == IF params.type = "function" THEN Obj(<<>>) ELSE params
        sent == _get_options(self, url, ps)
    IN  IF cb.type # "function" THEN Raise(self, "FAIL: INVALID CALLBACK.")
        ELSE IF url = <<>> \/ Head(url) # "/" THEN Raise(self, "FAIL: INVALID URL.")
        ELSE [raised |-> FALSE, value |-> "this", options |-> sent.options,
              request |-> sent.request, callback |-> cb, calls |-> <<>>]

\* lines 153-167 and 190-191 of _post: the request options and the body
\* written; this.options.headers is merged into a new object
_post_options(self, url, ps) ==
    LET post_data == stringify(Items(ps))
        merged == merge(<< <<"Content-Length", <<ToString(TextLength(post_data))>>>> >>,
                        Get(self, "headers"))
        headers == IF hasOwnProperty(self, "access_token")
                   THEN Put(merged, "Authorization",
                            <<"Bearer", " ">> \o Get(self, "access_token"))
                   ELSE merged
        path == encodeURI(url)
                \o (IF hasOwnProperty(self, "app_id")
                    THEN <<"?">> \o stringify(<< <<"source", Get(self, "app_id")>> >>)
                    ELSE <<>>)
    IN  [options |-> self,
         request |-> [protocol |-> protocolName(self),
                      host |-> Get(self, "rest_base"),
                      path |-> path,
                      method |-> "POST",
                      headers |-> headers,
                      body |-> post_data,
                      ended |-> TRUE]]

\* _post reporting a bad path to the callback before it returns
_post_syncFailure(self, url, params, callback) ==
    LET cb == IF params.type = "function" THEN params ELSE callback
        ps == IF params.type = "function" THEN Obj(<<>>) ELSE params
        sent == _post_options(self, url, ps)
    IN  IF cb.type # "function" THEN Raise(self, "FAIL: INVALID CALLBACK.")
        ELSE IF url = <<>> \/ Head(url) # "/"
        THEN [raised |-> FALSE, value |-> "this", options |-> self,
              request |-> NoRequest, callback |-> cb,
              calls |-> <<Completion(JsString("FAIL: INVALID URL."), EmptyObject, "call")>>]
        ELSE [raised |-> FALSE, value |-> "this", options |-> sent.options,
              request |-> sent.request, callback |-> cb, calls |-> <<>>]

\* Bangumi.prototype._post(url, params, callback) up to `return this`
_post(self, url, params, callback) ==
    LET cb == IF params.type = "function" THEN params ELSE callback
        ps == IF params.type = "function" THEN Obj(<<>>) ELSE params
        sent == _post_options(self, url, ps)
    IN  IF cb.type # "function" THEN Raise(self, "FAIL: INVALID CALLBACK.")
        ELSE IF url = <<>> \/ Head(url) # "/" THEN Raise(self, "FAIL: INVALID URL.")
        ELSE [raised |-> FALSE, value |-> "this", options |-> sent.options,
              request |-> sent.request, callback |-> cb, calls |-> <<>>]

(***************************************************************************)
(* The response handlers.                                                  *)
(***************************************************************************)
\* what a completion function that raises throws
Thrown == JsError("Error", "thrown by the completion function")

\* the calls of `callback` that the 'end' handler of _get makes (lines 99-107);
\* raises: the first call of `callback` throws.  A throw of the call in the
\* catch block leaves the handler uncaught and calls nothing further.
_get_onEnd(data, raises) ==
    LET parsed == JSON_parse(data)
        json == parsed.value
        has == CallHasOwnProperty(json, "error")
        first == IF has = "true" THEN Completion(json, EmptyObject, "end")
                                 ELSE Completion(null, json, "end")
    IN  IF ~parsed.ok THEN <<Completion(parsed.value, EmptyObject, "end")>>
        ELSE IF has = "throw"
        THEN <<Completion(JsError("TypeError", "hasOwnProperty"), EmptyObject, "end")>>
        ELSE IF raises THEN <<first, Completion(Thrown, EmptyObject, "end")>>
        ELSE <<first>>

\* the call the 'error' handler of _get makes (lines 109-111)
_get_onError(err) == <<Completion(err, EmptyObject, "error")>>

\* the calls the 'end' handler of _post makes (lines 175-183)
_post_onEnd(data, raises) ==
    LET parsed == JSON_parse(data)
        json == parsed.value
        has == CallHasOwnProperty(json, "error")
        first == IF has = "true" THEN Completion(json, EmptyObject, "end")
                                 ELSE Completion(null, json, "end")
    IN  IF ~parsed.ok THEN <<Completion(parsed.value, EmptyObject, "end")>>
        ELSE IF has = "throw"
        THEN <<Completion(JsError("TypeError", "hasOwnProperty"), EmptyObject, "end")>>
        ELSE IF raises THEN <<first, Completion(Thrown, EmptyObject, "end")>>
        ELSE <<first>>

\* the call the 'error' handler of _post makes (lines 185-187)
_post_onError(err) == <<Completion(err, EmptyObject, "error")>>

(***************************************************************************)
(* The dual-mode adapter and the wrappers get and post.                    *)
(***************************************************************************)
Deferred(state, value) == [state |-> state, value |-> value]

NoDeferred == Deferred("none", undefined)

\* the completion function the adapter passes when no callback was supplied:
\* it rejects on a non-null error and resolves with the value otherwise; a
\* settled deferred stays as it is
Settle(deferred, call) ==
    IF deferred.state # "pending" THEN deferred
    ELSE IF call.error.type \notin {"null", "undefined"}
    THEN Deferred("rejected", call.error)
    ELSE Deferred("fulfilled", call.value)

RECURSIVE SettleAll(_, _)
SettleAll(deferred, calls) ==
    IF calls = <<>> THEN deferred
    ELSE SettleAll(Settle(deferred, Head(calls)), Tail(calls))

\* the completion functions fn can be run with: the caller's callback and the
\* adapter's own
Completions(callback) == {callback, Fn("cb")}

\* utils.promiseOrCallback(callback, fn): with a callback, fn is run with it
\* and what fn raises reaches the caller; without one, fn is run inside the
\* deferred, which is returned, and what fn raises rejects it
promiseOrCallback(callback, fn) ==
    IF callback.type = "function"
    THEN LET r == fn[callback]
         IN  [raised |-> r.raised, value |-> IF r.raised THEN r.value ELSE "undefined",
              options |-> r.options, request |-> r.request, callback |-> r.callback,
              calls |-> r.calls, deferred |-> NoDeferred]
    ELSE LET r == fn[Fn("cb")]
         IN  [raised |-> FALSE, value |-> "deferred",
              options |-> r.options, request |-> r.request, callback |-> r.callback,
              calls |-> r.calls,
              deferred |-> IF r.raised THEN Deferred("rejected", JsString(r.value))
                           ELSE IF r.callback.lit = "cb"
                           THEN SettleAll(Deferred("pending", undefined), r.calls)
                           ELSE Deferred("pending", undefined)]

\* get handing the caller's callback, not the adapter's completion function,
\* to _get
get_passesCallback(self, url, params, callback) ==
    promiseOrCallback(callback,
        [cb \in Completions(callback) |-> _get(self, url, params, callback)])

\* Bangumi.prototype.get(url, params, callback)
get(self, url, params, callback) ==
    promiseOrCallback(callback,
        [cb \in Completions(callback) |-> _get(self, url, params, cb)])

\* Bangumi.prototype.post(url, params, callback)
post(self, url, params, callback) ==
    promiseOrCallback(callback,
        [cb \in Completions(callback) |-> _post(self, url, params, cb)])

(***************************************************************************)
(* The promise-provider store (lib/promise_provider.js).                   *)
(***************************************************************************)
\* store.get()
store_get(promise) == promise

\* store.set without its assertion
store_set_noAssert(promise, lib) ==
    [raised |-> FALSE, value |-> "undefined", promise |-> lib]

\* store.set(lib): [raised, value, promise], promise being store._promise after
store_set(promise, lib) ==
    IF lib.type = "function"
    THEN [raised |-> FALSE, value |-> "undefined", promise |-> lib]
    ELSE [raised |-> TRUE, value |-> "AssertionError", promise |-> promise]

\* what a caller may hand to set: two constructors and two values that are
\* no function
Libs == {Fn("Promise"), Fn("bluebird"), JsString("bluebird"), undefined}

(***************************************************************************)
(* The remote end: the payloads it answers with and their JSON texts.      *)
(***************************************************************************)
Payloads ==
    { Obj(<< <<"shows", <<"number", "7">>>> >>),
      EmptyObject,
      Obj(<< <<"error", <<"string", "need login">>>> >>),
      null,
      JsValue("boolean", "true", <<>>),
      JsValue("number", "7", <<>>),
      JsString("s"),
      JsValue("array", "", << <<"0", <<"number", "7">>>> >>),
      Obj(<< <<"hasOwnProperty", <<"number", "7">>>> >>),
      Obj(<< <<"hasOwnProperty", <<"number", "7">>>>, <<"error", <<"string", "s">>>> >>) }

TokenOf(scalar) ==
    ScalarTokens[CHOOSE i \in 1..Len(ScalarTokens) :
                    <<ScalarTokens[i][2], ScalarTokens[i][3]>> = scalar][1]

RECURSIVE StringifyItems(_, _)
StringifyItems(items, keyed) ==
    IF items = <<>> THEN <<>>
    ELSE (IF keyed THEN <<TokenOf(<<"string", Head(items)[1]>>), ":">> ELSE <<>>)
         \o <<TokenOf(Head(items)[2])>>
         \o (IF Tail(items) = <<>> THEN <<>> ELSE <<",">> \o StringifyItems(Tail(items), keyed))

\* the JSON text the remote end sends for a payload
JSON_stringify(v) ==
    CASE v.type = "object" -> <<"{">> \o StringifyItems(v.items, TRUE) \o <<"}">>
      [] v.type = "array"  -> <<"[">> \o StringifyItems(v.items, FALSE) \o <<"]">>
      [] OTHER             -> <<TokenOf(<<v.type, v.lit>>)>>

\* the response bodies: the JSON texts and a body that is no JSON
Bodies == { JSON_stringify(v) : v \in Payloads } \cup { <<"<html>">> }

\* the error a failing socket emits
TransportError == JsError("Error", "ECONNRESET")

(***************************************************************************)
(* The state machine.                                                      *)
(***************************************************************************)
Urls == { <<"/", "calendar">>, <<"calendar">> }

ParamsArgs == { Obj(<< <<"status", <<"wish">>>>, <<"comment", <<"so", " ", "so">>>> >>),
                Fn("params"), undefined }

CallbackArgs == { Fn("callback"), undefined }

\* no call yet.  A later call replaces the record: the handlers of an earlier
\* request read and write only their own closure, which nothing else reaches.
NoCall ==
    [api |-> "none", client |-> "none", url |-> <<>>, params |-> "undefined",
     callback |-> "undefined", raised |-> FALSE, value |-> "none",
     phase |-> "idle", request |-> NoRequest,
     target |-> "none", deferred |-> NoDeferred, data |-> <<>>, calls |-> <<>>]

Init ==
    /\ options = [c \in Clients |-> Bangumi(UserOptions(c))]
    \* `if (global.hasOwnProperty('Promise')) store.set(global.Promise)`
    /\ \E hasPromise \in BOOLEAN :
          store_promise = IF hasPromise THEN store_set(null, Fn("Promise")).promise ELSE null
    /\ cur = NoCall

\* the caller's frame of one request call: r is what the call did
Called(api, c, url, params, callback, r) ==
    /\ options' = [options EXCEPT ![c] = r.options]
    /\ cur' = [api |-> api, client |-> c, url |-> url, params |-> params.type,
               callback |-> callback.type,
               raised |-> r.raised, value |-> r.value,
               phase |-> IF r.request = NoRequest THEN "idle" ELSE "sent",
               request |-> r.request,
               target |-> r.callback.lit,
               deferred |-> r.deferred,
               data |-> <<>>, calls |-> r.calls]
    /\ UNCHANGED store_promise

\* a call of the executor itself returns no deferred
Direct(r) == r @@ [deferred |-> NoDeferred]

Call_get ==
    \E c \in Clients, url \in Urls, params \in ParamsArgs, callback \in CallbackArgs :
        Called("_get", c, url, params, callback,
               Direct(_get(options[c], url, params, callback)))

Call_post ==
    \E c \in Clients, url \in Urls, params \in ParamsArgs, callback \in CallbackArgs :
        Called("_post", c, url, params, callback,
               Direct(_post(options[c], url, params, callback)))

Callget ==
    \E c \in Clients, url \in Urls, params \in ParamsArgs, callback \in CallbackArgs :
        Called("get", c, url, params, callback, get(options[c], url, params, callback))

Callpost ==
    \E c \in Clients, url \in Urls, params \in ParamsArgs, callback \in CallbackArgs :
        Called("post", c, url, params, callback, post(options[c], url, params, callback))

\* the request emits 'error' (the connection fails): no listener is
\* registered on req, so no handler of the call runs
RequestError ==
    /\ cur.phase = "sent"
    /\ cur' = [cur EXCEPT !.phase = "failed"]
    /\ UNCHANGED <<options, store_promise>>

\* the response arrives: the function given to request() runs, `data = ''`
Response ==
    /\ cur.phase = "sent"
    /\ cur' = [cur EXCEPT !.phase = "open", !.data = <<>>]
    /\ UNCHANGED <<options, store_promise>>

\* res emits 'data': data += chunk
OnData ==
    /\ cur.phase = "open"
    /\ \E body \in Bodies, k \in 1..MaxChunkLen :
          /\ Len(cur.data) + k <= Len(body)
          /\ SubSeq(body, 1, Len(cur.data)) = cur.data
          /\ cur' = [cur EXCEPT !.data = cur.data \o SubSeq(body, Len(cur.data) + 1,
                                                           Len(cur.data) + k)]
    /\ UNCHANGED <<options, store_promise>>

\* the completion calls reach the function the handlers hold: the adapter's
\* completion function settles the deferred, a user's function may raise
Deliver(calls, phase) ==
    /\ cur' = [cur EXCEPT !.phase = phase,
                          !.calls = cur.calls \o calls,
                          !.deferred = IF cur.target = "cb"
                                       THEN SettleAll(cur.deferred, calls)
                                       ELSE cur.deferred]
    /\ UNCHANGED <<options, store_promise>>

\* res emits 'end'
OnEnd ==
    /\ cur.phase = "open"
    /\ \E raises \in (IF cur.target = "cb" THEN {FALSE} ELSE BOOLEAN) :
          Deliver(IF cur.request.method = "GET" THEN _get_onEnd(cur.data, raises)
                                                ELSE _post_onEnd(cur.data, raises),
                  "ended")

\* res emits 'error'
OnError ==
    /\ cur.phase = "open"
    /\ Deliver(IF cur.request.method = "GET" THEN _get_onError(TransportError)
                                             ELSE _post_onError(TransportError),
               "errored")

\* the caller's frame of one call of the store: r is what the call did
Stored(api, c, lib, r) ==
    /\ store_promise' = r.promise
    /\ cur' = [NoCall EXCEPT !.api = api, !.client = c, !.params = lib.type,
                             !.target = lib.lit,
                             !.raised = r.raised, !.value = r.value]
    /\ UNCHANGED options

\* PromiseProvider.set(lib), called on the module
PromiseProvider_set ==
    \E lib \in Libs :
        Stored("PromiseProvider.set", "none", lib, store_set(store_promise, lib))

\* Bangumi.prototype.setPromiseProvider(provider), called on an instance
setPromiseProvider ==
    \E c \in Clients, provider \in Libs :
        Stored("setPromiseProvider", c, provider, store_set(store_promise, provider))

\* PromiseProvider.get()
PromiseProvider_get ==
    Stored("PromiseProvider.get", "none", undefined,
           [raised |-> FALSE, value |-> store_get(store_promise).lit,
            promise |-> store_promise])

Next ==
    \/ Call_get
    \/ Call_post
    \/ Callget
    \/ Callpost
    \/ RequestError
    \/ Response
    \/ OnData
    \/ OnEnd
    \/ OnError
    \/ PromiseProvider_set
    \/ setPromiseProvider
    \/ PromiseProvider_get

Spec == Init /\ [][Next]_vars

(***************************************************************************)
(* Properties.                                                             *)
(***************************************************************************)
Executors == {"_get", "_post"}

Wrappers == {"get", "post"}

\* the response of the request has ended or failed
Over == cur.phase \in {"ended", "errored"}

BadPath == cur.url = <<>> \/ Head(cur.url) # "/"

\* neither the second nor the third argument is a function
NoCallback == cur.params # "function" /\ cur.callback # "function"

\* the payload is an object with an own key "error"
HasErrorKey(v) == v.type = "object" /\ \E i \in 1..Len(v.items) : v.items[i][1] = "error"

\* C1: the completion function of a request is called at most once.
C1_AtMostOnce == Len(cur.calls) <= 1

\* C2: a dispatched request whose transport is done with it (the request
\* failed, or the response ended or failed) has called its completion function.
C2_Delivered == cur.phase \in {"failed", "ended", "errored"} => cur.calls # <<>>

\* C3: a body that is the JSON text of a payload without an "error" key is
\* delivered as (null, payload).
C3_Success ==
    \A v \in Payloads :
        cur.phase = "ended" /\ cur.data = JSON_stringify(v) /\ ~HasErrorKey(v)
            => /\ cur.calls # <<>>
               /\ Head(cur.calls).error = null
               /\ Head(cur.calls).value = v

\* C4: a body that is the JSON text of a payload with an "error" key is
\* delivered as (payload, {}).
C4_RemoteError ==
    \A v \in Payloads :
        cur.phase = "ended" /\ cur.data = JSON_stringify(v) /\ HasErrorKey(v)
            => /\ cur.calls # <<>>
               /\ Head(cur.calls).error = v
               /\ Head(cur.calls).value = EmptyObject

C6_OptionsUnchanged == \A c \in Clients : options[c] = Bangumi(UserOptions(c))

\* what a call with a callback receives for the response: the calls the
\* handlers make to a callback that returns
Received ==
    IF cur.phase = "ended"
    THEN IF cur.request.method = "GET" THEN _get_onEnd(cur.data, FALSE)
                                       ELSE _post_onEnd(cur.data, FALSE)
    ELSE IF cur.request.method = "GET" THEN _get_onError(TransportError)
                                       ELSE _post_onError(TransportError)

\* the deferred is settled as (error, value) says
SettledAs(call) ==
    IF call.error # null
    THEN cur.deferred = Deferred("rejected", call.error)
    ELSE cur.deferred = Deferred("fulfilled", call.value)

\* C7: get and post called with the path alone return a deferred; it is
\* pending until the response is over and is then rejected with the error or
\* resolved with the value that a callback would have received.
C7_DeferredMatchesCallback ==
    cur.api \in Wrappers /\ cur.params = "undefined" /\ cur.callback = "undefined"
        => /\ ~cur.raised /\ cur.value = "deferred"
           /\ cur.deferred.state # "none"
           /\ ~BadPath /\ ~Over => cur.deferred.state = "pending"
           /\ ~BadPath /\ Over => SettledAs(Head(Received))

C7_Witness ==
    /\ cur.api = "get" /\ cur.params = "undefined" /\ cur.callback = "undefined"
    /\ cur.phase = "ended"
    /\ cur.deferred = Deferred("rejected", Obj(<< <<"error", <<"string", "need login">>>> >>))

\* C8: every call of a completion function is made by the handler of a
\* response event, after the API call has returned.
C8_NeverSynchronous ==
    /\ \A i \in 1..Len(cur.calls) : cur.calls[i].on \in {"end", "error"}
    /\ cur.calls # <<>> => Over /\ ~cur.raised /\ cur.request.ended

C8_Witness ==
    /\ cur.api = "_post" /\ cur.phase = "ended"
    /\ cur.calls = <<Completion(null, EmptyObject, "end")>>

\* C9: a deferred that get or post returned is settled once the response
\* has ended, rejected with the error the completion function was called with
\* when that is not null and resolved with the value otherwise, also when the
\* callback was passed in place of the parameters object.
C9_DeferredSettled ==
    cur.deferred.state # "none" /\ cur.phase = "ended"
        => /\ cur.deferred.state \in {"fulfilled", "rejected"}
           /\ cur.calls # <<>>
           /\ SettledAs(Head(cur.calls))

SetCalls == {"PromiseProvider.set", "setPromiseProvider"}

\* C10: a set given a function stores it and returns, a set given anything
\* else raises an assertion failure; the stored provider changes only by a
\* set given a function, whichever instance it is called on, and get returns
\* the stored provider.
C10_Provider ==
    [][ /\ cur'.api \in SetCalls /\ cur'.params = "function"
            => ~cur'.raised /\ store_promise' = Fn(cur'.target)
        /\ cur'.api \in SetCalls /\ cur'.params # "function"
            => cur'.raised /\ cur'.value = "AssertionError"
        /\ store_promise' # store_promise
            => cur'.api \in SetCalls /\ cur'.params = "function"
        /\ cur'.api = "PromiseProvider.get" => cur'.value = store_promise'.lit ]_vars

C10_Witness ==
    /\ cur.api = "setPromiseProvider" /\ cur.client = "both"
    /\ cur.raised /\ cur.value = "AssertionError"
    /\ store_promise = Fn("bluebird")

====
